---- MODULE Spec2Model ----
(***************************************************************************)
(* A model of papis' command registry and dispatch front end               *)
(* (papis/commands/__init__.py) and of the update command's workflow       *)
(* (papis/commands/update.py).                                             *)
(*                                                                         *)
(* Spec       : the registry / dispatch layer, driven by calls of the      *)
(*              module's public functions: init(), main(),                 *)
(*              init_and_return_parser(), set_commands(), set_args(),      *)
(*              init_internal_commands() and init_external_commands().     *)
(* SpecScan   : the discovery of the commands over the scripts folder,     *)
(*              PATH and the directory contents.                           *)
(* SpecParser : the entry points together with direct calls of             *)
(*              get_default_parser(), get_subparsers(), Command() and      *)
(*              Command.set_subparsers().                                  *)
(* SpecUpdate : one invocation of `papis update` (cli) from its options    *)
(*              to its end.                                                *)
(***************************************************************************)
EXTENDS Integers, Sequences, FiniteSets, TLC

(***************************************************************************)
(* Python's None and optional values.                                      *)
(***************************************************************************)
None == <<>>
Some(x) == <<x>>
The(o) == o[1]

(* dict.update: the entries of b replace or extend those of a *)
dict_update(a, b) ==
    [k \in (DOMAIN a) \cup (DOMAIN b) |-> IF k \in DOMAIN b THEN b[k] ELSE a[k]]

EmptyDict == [k \in {} |-> None]

(***************************************************************************)
(* Bounds.                                                                 *)
(***************************************************************************)
NumDirs == 2        \* directories that exist in the file system
MaxPathLen == 2     \* entries of the PATH environment variable
MaxCalls == 2       \* entry-point calls made in one process
MaxDocs == 2        \* documents in the library

(***************************************************************************)
(* Program constants.                                                      *)
(***************************************************************************)
COMMAND_NAMES ==
    << "default", "add", "check", "config", "edit", "export", "explore",
       "list", "rm", "mv", "open", "browse", "update", "run", "git", "gui",
       "sync" >>

InternalNames == {COMMAND_NAMES[i] : i \in 1..Len(COMMAND_NAMES)}

(***************************************************************************)
(* The environment of the external scan: a file name is the pair           *)
(* <<prefix, rest>> standing for "prefix-rest"; glob("papis-*") keeps the   *)
(* names whose prefix is "papis", and the command name is the rest.        *)
(***************************************************************************)
Dirs == 1..NumDirs
FileNames == {<<"papis", "add">>, <<"papis", "ext">>, <<"tool", "ext">>}
Listings ==
    { {}, {<<"papis", "add">>}, {<<"papis", "ext">>, <<"tool", "ext">>},
      {<<"papis", "add">>, <<"papis", "ext">>} }

glob_matches(f) == f[1] = "papis"
get_command_name(f) == f[2]

(***************************************************************************)
(* Inputs of the calls.                                                    *)
(***************************************************************************)
NoFailure == [at |-> 0, stage |-> "none"]
Failures ==
    {NoFailure} \cup
    {[at |-> 1, stage |-> "resolve"], [at |-> 2, stage |-> "init"]}

(* the names the module papis.commands.update defines: its functions, and no
   class Command *)
update_defines == {"_update_with_database", "run", "cli"}

(* the arguments of the command line main() parses: input_args, or the
   process arguments when input_args is empty *)
InputArgs == {<<>>, <<"add">>, <<"ext">>, <<"bogus">>}

(* arguments given to direct calls of set_commands and set_args *)
SetCommandsArgs == {None, Some(EmptyDict)}
SetArgsArgs == {[command |-> Some("sync")]}

VARIABLES
    \* module globals of papis.commands
    COMMANDS, ARGS, DEFAULT_PARSER, SUBPARSERS,
    \* environment: scripts folder, PATH, directory listings
    scripts_folder, PATH, fs,
    \* the caller: a Command it constructed and holds, the calls it made
    held, calls,
    \* observations
    parsers_made, subparsers_made, init_count, ext_result, autocompleted,
    last, invoked, dispatched,
    \* papis update: options and environment
    opts, docs, folder, index,
    \* papis update: locals of cli
    upc, documents, di, ki, document, ctx, matching_importers,
    \* papis update: what was logged, prompted, saved and sent to the store
    events

gvars == <<COMMANDS, ARGS, DEFAULT_PARSER, SUBPARSERS>>
envvars == <<scripts_folder, PATH, fs>>
obsvars == <<parsers_made, subparsers_made, init_count, ext_result,
             autocompleted, last, invoked, dispatched>>
rvars == <<gvars, envvars, held, calls, obsvars>>
uvars == <<opts, docs, folder, index, upc, documents, di, ki, document, ctx,
           matching_importers, events>>

(***************************************************************************)
(* Shared parser context: get_default_parser / get_subparsers work on the  *)
(* record p of the two globals and the two creation counters.              *)
(***************************************************************************)
ParserCtx ==
    [DEFAULT_PARSER |-> DEFAULT_PARSER, SUBPARSERS |-> SUBPARSERS,
     parsers_made |-> parsers_made, subparsers_made |-> subparsers_made]

get_default_parser_mut(p) ==
    [p EXCEPT !.DEFAULT_PARSER = Some(p.parsers_made + 1),
              !.parsers_made = p.parsers_made + 1]
get_default_parser(p) ==
    IF p.DEFAULT_PARSER = None
    THEN [p EXCEPT !.DEFAULT_PARSER = Some(p.parsers_made + 1),
                   !.parsers_made = p.parsers_made + 1]
    ELSE p

get_subparsers(p) ==
    IF p.SUBPARSERS = None
    THEN LET q == get_default_parser(p)
         IN [q EXCEPT !.SUBPARSERS = Some(q.subparsers_made + 1),
                      !.subparsers_made = q.subparsers_made + 1]
    ELSE p

(* Command.__init__: binds the shared parser and subcommand namespace *)
Command_ctx(p) == get_subparsers(get_default_parser(p))

Command_bound(q, kind, name, script) ==
    [kind |-> kind, name |-> name, script |-> script,
     default_parser |-> The(q.DEFAULT_PARSER), subparsers |-> The(q.SUBPARSERS)]

Command_new(p, kind, name, script) ==
    Command_bound(Command_ctx(p), kind, name, script)

(***************************************************************************)
(* init_internal_commands: the loop over COMMAND_NAMES from position i.    *)
(* st = [commands, p, init_count, raised]; fail says where resolution or   *)
(* initialisation raises in this attempt.                                  *)
(***************************************************************************)
(* get_command_class_by_name, line 117-118: the module is imported and its
   attribute Command is read *)
get_command_class_by_name(name, i, fail) ==
    IF fail.at = i /\ fail.stage = "resolve" THEN "ImportError"
    ELSE IF name = "update" /\ "Command" \notin update_defines
         THEN "AttributeError"
    ELSE "class"

RECURSIVE init_internal_loop(_, _, _)
init_internal_loop(i, st, fail) ==
    IF i > Len(COMMAND_NAMES) THEN st
    ELSE LET command == COMMAND_NAMES[i] IN
         IF get_command_class_by_name(command, i, fail) # "class"
         THEN [st EXCEPT !.raised = get_command_class_by_name(command, i, fail)]
         ELSE LET cmd == Command_new(st.p, "internal", command, None)
                  st1 == [st EXCEPT !.p = Command_ctx(st.p),
                                    !.init_count[command] = @ + 1]
              IN IF fail.at = i /\ fail.stage = "init"
                 THEN [st1 EXCEPT !.raised = "InitError"]
                 ELSE init_internal_loop(
                        i + 1,
                        [st1 EXCEPT !.commands = dict_update(@, (command :> cmd))],
                        fail)

init_internal_commands(p, counts, fail) ==
    init_internal_loop(
        1,
        [commands |-> EmptyDict, p |-> p, init_count |-> counts, raised |-> "no"],
        fail)

(***************************************************************************)
(* init_external_commands: paths = [scripts folder] + PATH; every script   *)
(* matching papis-* in every path, in scan order, is stored under its      *)
(* command name.                                                           *)
(***************************************************************************)
scan_paths_mut == PATH \o <<scripts_folder>>
scan_paths == <<scripts_folder>> \o PATH

glob(path) == {f \in fs[path] : glob_matches(f)}

RECURSIVE scripts_loop(_, _, _)
scripts_loop(path, scripts, st) ==
    IF scripts = {} THEN st
    ELSE LET script == CHOOSE f \in scripts : TRUE
             cmd == Command_new(st.p, "external", get_command_name(script),
                                Some(<<path, script>>))
         IN scripts_loop(
                path, scripts \ {script},
                [commands |-> dict_update(st.commands,
                                          (get_command_name(script) :> cmd)),
                 p |-> Command_ctx(st.p)])

RECURSIVE paths_loop(_, _, _)
paths_loop(paths, i, st) ==
    IF i > Len(paths) THEN st
    ELSE paths_loop(paths, i + 1, scripts_loop(paths[i], glob(paths[i]), st))

init_external_commands(p) ==
    paths_loop(scan_paths, 1, [commands |-> EmptyDict, p |-> p])

(***************************************************************************)
(* init(): the outcome of one call, as a record of the new globals.        *)
(***************************************************************************)
get_commands == COMMANDS

already_initialised == get_commands # None

union_commands(internal, external) ==
    dict_update(dict_update(EmptyDict, internal), external)

init_unchanged(raised, p, counts) ==
    [raised |-> raised, COMMANDS |-> COMMANDS, p |-> p, init_count |-> counts,
     ext_result |-> ext_result, autocompleted |-> autocompleted]

(* init(), line 161-165, once the internal commands int are there *)
init_publish(int, ext) ==
    [raised |-> "no",
     COMMANDS |-> Some(union_commands(int.commands, ext.commands)),
     p |-> get_default_parser(ext.p),
     init_count |-> int.init_count,
     ext_result |-> Some(ext.commands),
     autocompleted |-> autocompleted + 1]

(* init(), line 160: internal discovery raises, or discovery goes on *)
init_build(int) ==
    IF int.raised # "no"
    THEN init_unchanged(int.raised, int.p, int.init_count)
    ELSE init_publish(int, init_external_commands(int.p))

init_outcome(fail) ==
    IF already_initialised
    THEN init_unchanged("RuntimeError", ParserCtx, init_count)
    ELSE init_build(init_internal_commands(ParserCtx, init_count, fail))

ApplyInit(o) ==
    /\ COMMANDS' = o.COMMANDS
    /\ DEFAULT_PARSER' = o.p.DEFAULT_PARSER
    /\ SUBPARSERS' = o.p.SUBPARSERS
    /\ parsers_made' = o.p.parsers_made
    /\ subparsers_made' = o.p.subparsers_made
    /\ init_count' = o.init_count
    /\ ext_result' = o.ext_result
    /\ autocompleted' = o.autocompleted

RecordValue(op, result, value) ==
    last' = [op |-> op, built_before |-> (COMMANDS # None), result |-> result,
             value |-> value, parsed |-> None]

(* value: the <<parser, subcommand namespace>> a call returned or bound,
   0 where there is none *)
Record(op, result) == RecordValue(op, result, <<0, 0>>)

(***************************************************************************)
(* Entry points.                                                           *)
(***************************************************************************)
init ==
    /\ calls < MaxCalls
    /\ \E fail \in Failures :
         \E o \in {init_outcome(fail)} :
         /\ ApplyInit(o)
         /\ Record("init", IF o.raised = "no" THEN "ok" ELSE o.raised)
    /\ calls' = calls + 1
    /\ UNCHANGED <<ARGS, envvars, held, invoked, dispatched, uvars>>

(* main(), line 169: init() is called whatever the state of the registry *)
main_init_mut(fail) ==
    IF already_initialised
    THEN [raised |-> "no", COMMANDS |-> COMMANDS, p |-> ParserCtx,
          init_count |-> init_count, ext_result |-> ext_result,
          autocompleted |-> autocompleted]
    ELSE init_outcome(fail)
main_init(fail) == init_outcome(fail)

(* set_args: only the first arguments are kept *)
set_args(args) == IF ARGS = None THEN Some(args) ELSE ARGS

(* main(), line 172: parse_args gives the subcommand the arguments name, none
   for an empty command line; argparse exits (None) on a name that no
   command registered *)
parse_args(argv, commands) ==
    IF argv = <<>> THEN Some([command |-> None])
    ELSE IF argv[1] \in DOMAIN commands THEN Some([command |-> Some(argv[1])])
    ELSE None

(* the Command main() hands control to, line 175 *)
dispatch_target(commands, args) == commands["default"]

(* what main() leaves when it ends with result, having parsed args (None
   when it did not get to parsing) *)
main_ended(o, result, args) ==
    [init |-> o, result |-> result, parsed |-> args,
     ARGS |-> IF args = None THEN ARGS ELSE set_args(The(args)),
     invoked |-> invoked, dispatched |-> dispatched]

(* main(), line 170-175, once init() returned: get_commands, parse_args,
   set_args and commands["default"].main() *)
main_run(o, argv) ==
    LET commands == The(o.COMMANDS)
        args == parse_args(argv, commands)
    IN IF args = None THEN main_ended(o, "SystemExit", None)
       ELSE IF "default" \notin DOMAIN commands
            THEN main_ended(o, "KeyError", args)
            ELSE [main_ended(o, "ok", args) EXCEPT
                    !.invoked = Some(dispatch_target(commands, The(args))),
                    !.dispatched = dispatched + 1]

(* main(), line 168-175: an exception of init() ends the call *)
main_outcome(fail, argv) ==
    LET o == main_init(fail)
    IN IF o.raised # "no" THEN main_ended(o, o.raised, None)
       ELSE main_run(o, argv)

main ==
    /\ calls < MaxCalls
    /\ \E fail \in Failures, argv \in InputArgs :
         \E m \in {main_outcome(fail, argv)} :
         /\ ApplyInit(m.init)
         /\ ARGS' = m.ARGS
         /\ invoked' = m.invoked
         /\ dispatched' = m.dispatched
         /\ last' = [op |-> "main", built_before |-> (COMMANDS # None),
                     result |-> m.result, value |-> <<0, 0>>,
                     parsed |-> m.parsed]
    /\ calls' = calls + 1
    /\ UNCHANGED <<envvars, held, uvars>>

(* init_and_return_parser, line 183-188: what the caller sees of an init()
   that raised: except Exception: pass, and the parser is returned *)
parser_call_result_mut(raised) == IF raised = "no" THEN "ok" ELSE raised
parser_call_result(raised) == "ok"

(* init_and_return_parser: init() with every Exception passed over, then
   get_default_parser() *)
init_and_return_parser ==
    /\ calls < MaxCalls
    /\ \E fail \in Failures :
         \E o \in {[init_outcome(fail) EXCEPT !.p = get_default_parser(@)]} :
            /\ ApplyInit(o)
            /\ RecordValue("init_and_return_parser",
                           parser_call_result(o.raised),
                           <<The(o.p.DEFAULT_PARSER), 0>>)
    /\ calls' = calls + 1
    /\ UNCHANGED <<ARGS, envvars, held, invoked, dispatched, uvars>>

(* set_commands(commands), line 49-58, called from outside init() *)
call_set_commands ==
    /\ calls < MaxCalls
    /\ \E commands \in SetCommandsArgs :
          /\ COMMANDS' = commands
          /\ Record("set_commands", "ok")
    /\ calls' = calls + 1
    /\ UNCHANGED <<ARGS, DEFAULT_PARSER, SUBPARSERS, envvars, held, parsers_made,
                   subparsers_made, init_count, ext_result, autocompleted,
                   invoked, dispatched, uvars>>

(* set_args(args), line 35-46, called from outside main() *)
call_set_args ==
    /\ calls < MaxCalls
    /\ \E args \in SetArgsArgs :
          /\ ARGS' = set_args(args)
          /\ Record("set_args", "ok")
    /\ calls' = calls + 1
    /\ UNCHANGED <<COMMANDS, DEFAULT_PARSER, SUBPARSERS, envvars, held,
                   parsers_made, subparsers_made, init_count, ext_result,
                   autocompleted, invoked, dispatched, uvars>>

(* init_internal_commands(), line 121-132, called from outside init(): the
   commands are constructed and initialised, the registry is not looked at *)
call_init_internal_commands ==
    /\ calls < MaxCalls
    /\ \E fail \in Failures :
         \E int \in {init_internal_commands(ParserCtx, init_count, fail)} :
            /\ DEFAULT_PARSER' = int.p.DEFAULT_PARSER
            /\ SUBPARSERS' = int.p.SUBPARSERS
            /\ parsers_made' = int.p.parsers_made
            /\ subparsers_made' = int.p.subparsers_made
            /\ init_count' = int.init_count
            /\ Record("init_internal_commands",
                      IF int.raised = "no" THEN "ok" ELSE int.raised)
    /\ calls' = calls + 1
    /\ UNCHANGED <<COMMANDS, ARGS, envvars, held, ext_result, autocompleted,
                   invoked, dispatched, uvars>>

(* init_external_commands(), line 135-152, called from outside init() *)
call_init_external_commands ==
    /\ calls < MaxCalls
    /\ \E ext \in {init_external_commands(ParserCtx)} :
          /\ DEFAULT_PARSER' = ext.p.DEFAULT_PARSER
          /\ SUBPARSERS' = ext.p.SUBPARSERS
          /\ parsers_made' = ext.p.parsers_made
          /\ subparsers_made' = ext.p.subparsers_made
          /\ ext_result' = Some(ext.commands)
          /\ Record("init_external_commands", "ok")
    /\ calls' = calls + 1
    /\ UNCHANGED <<COMMANDS, ARGS, envvars, held, init_count, autocompleted,
                   invoked, dispatched, uvars>>

(* the parser context after a call, with the registry left alone *)
ApplyParserCtx(q) ==
    /\ DEFAULT_PARSER' = q.DEFAULT_PARSER
    /\ SUBPARSERS' = q.SUBPARSERS
    /\ parsers_made' = q.parsers_made
    /\ subparsers_made' = q.subparsers_made
    /\ calls' = calls + 1
    /\ UNCHANGED <<COMMANDS, ARGS, envvars, init_count, ext_result,
                   autocompleted, invoked, dispatched, uvars>>

(* a call of get_default_parser() from outside the build *)
call_get_default_parser ==
    /\ calls < MaxCalls
    /\ \E q \in {get_default_parser(ParserCtx)} :
          /\ ApplyParserCtx(q)
          /\ RecordValue("get_default_parser", "ok", <<The(q.DEFAULT_PARSER), 0>>)
    /\ UNCHANGED held

(* a call of get_subparsers() from outside the build *)
call_get_subparsers ==
    /\ calls < MaxCalls
    /\ \E q \in {get_subparsers(ParserCtx)} :
          /\ ApplyParserCtx(q)
          /\ RecordValue("get_subparsers", "ok", <<0, The(q.SUBPARSERS)>>)
    /\ UNCHANGED held

(* a Command the caller constructs and keeps: Command.__init__ *)
construct_command ==
    /\ calls < MaxCalls
    /\ \E cmd \in {Command_new(ParserCtx, "internal", "default", None)} :
          /\ ApplyParserCtx(Command_ctx(ParserCtx))
          /\ held' = Some(cmd)
          /\ RecordValue("Command", "ok", <<cmd.default_parser, cmd.subparsers>>)

(* Command.set_subparsers, line 222-223, on the Command the caller holds:
   its attribute is rebound to the object given, here one that
   get_subparsers() did not create (written 0) *)
command_set_subparsers ==
    /\ calls < MaxCalls
    /\ held # None
    /\ held' = Some([The(held) EXCEPT !.subparsers = 0])
    /\ Record("set_subparsers", "ok")
    /\ calls' = calls + 1
    /\ UNCHANGED <<gvars, envvars, parsers_made, subparsers_made, init_count,
                   ext_result, autocompleted, invoked, dispatched, uvars>>

(***************************************************************************)
(* papis update (papis/commands/update.py).                                *)
(*                                                                         *)
(* A document is a mapping field -> value.  docs holds the Document        *)
(* objects the query returns, folder what document.save() wrote, index     *)
(* what was handed to papis.database.get().update().                       *)
(***************************************************************************)
DocIds == 1..MaxDocs

Ref(d) == CASE d = 1 -> "r1" [] d = 2 -> "r2" [] OTHER -> "r3"

LibraryDoc(d) ==
    IF d % 2 = 1 THEN ("ref" :> Ref(d)) @@ ("tags" :> "old")
    ELSE ("ref" :> Ref(d)) @@ ("title" :> "t")

Library == [d \in DocIds |-> LibraryDoc(d)]

(* Document: reading an absent field gives the empty string, deleting an
   absent field raises *)
doc_get(doc, key) == IF key \in DOMAIN doc THEN doc[key] ELSE ""
doc_del_raises(doc, key) == key \notin DOMAIN doc
doc_del(doc, key) == [f \in (DOMAIN doc) \ {key} |-> doc[f]]

(* papis.utils.format_doc: a value is a literal or a format of the document *)
Placeholders == ("{doc[tags]}" :> "tags")
format_doc(value, doc) ==
    IF value \in DOMAIN Placeholders THEN doc_get(doc, Placeholders[value])
    ELSE value

(* the registered importers and what each one's fetch() yields when it
   succeeds with data *)
get_importers == <<"A", "B">>
ImporterCtx(name) ==
    IF name = "A"
    THEN [data |-> ("ref" :> "evil") @@ ("tags" :> "newA"), files |-> <<>>]
    ELSE [data |-> ("title" :> "tB"), files |-> <<"f.pdf">>]
EmptyCtx == [data |-> EmptyDict, files |-> <<>>]

fetch(name, out) ==
    [name |-> name, ctx |-> IF out = "Data" THEN ImporterCtx(name) ELSE EmptyCtx]

(* Context.__bool__ *)
ctx_bool(c) == DOMAIN c.data # {} \/ c.files # <<>>

(* inputs *)
SetChoices ==
    { <<>>, << <<"tags", "foo bar">> >>,
      << <<"ref", "evil">>, <<"title", "{doc[tags]}">> >> }
DeleteChoices == { <<>>, <<"tags">>, <<"title", "ref">> }
FromChoices ==
    { <<>>, << <<"A", "uri">> >>, << <<"B", "uri">>, <<"A", "uri">> >> }

Options ==
    [doc_folder : {None, Some(1)}, interactive : BOOLEAN, force : BOOLEAN,
     auto : BOOLEAN, all : BOOLEAN, from_importer : FromChoices,
     set : SetChoices, delete : DeleteChoices]

RECURSIVE Ascending(_)
Ascending(S) ==
    IF S = {} THEN <<>>
    ELSE LET m == CHOOSE x \in S : \A y \in S : x <= y
         IN <<m>> \o Ascending(S \ {m})

QueryResults == {Ascending(S) : S \in SUBSET DocIds}
Range(q) == {q[n] : n \in 1..Len(q)}

Ev(ev, d, what) == [ev |-> ev, doc |-> d, what |-> what]
StoreOutcomes == {"ok", "save_raises", "update_raises"}

(* _update_with_database(document): st = [folder, index, events, raised] *)
update_with_database(st, d, doc, res) ==
    IF res = "save_raises"
    THEN [st EXCEPT !.events = Append(@, Ev("save_raises", d, "")),
                    !.raised = TRUE]
    ELSE IF res = "update_raises"
    THEN [st EXCEPT !.folder[d] = doc,
                    !.events = @ \o <<Ev("save", d, ""), Ev("update_raises", d, "")>>,
                    !.raised = TRUE]
    ELSE [st EXCEPT !.folder[d] = doc, !.index[d] = doc,
                    !.events = @ \o <<Ev("save", d, ""), Ev("update", d, "")>>]

Store == [folder |-> folder, index |-> index, events |-> events, raised |-> FALSE]

(* positions of cli after each of its loops *)
after_from_mut(m) ==
    IF m # <<>> THEN [upc |-> "merge", ki |-> 1] ELSE [upc |-> "run", ki |-> 0]
after_from(m) ==
    IF m # <<>> THEN [upc |-> "merge", ki |-> 1] ELSE [upc |-> "done", ki |-> 0]

after_auto(m) ==
    IF opts.from_importer # <<>> THEN [upc |-> "from", ki |-> 1] ELSE after_from(m)

after_documents_mut ==
    IF opts.auto /\ get_importers # <<>>
    THEN [upc |-> "auto", ki |-> 1]
    ELSE after_auto(<<>>)
after_documents ==
    IF opts.from_importer = <<>> /\ opts.auto /\ get_importers # <<>>
    THEN [upc |-> "auto", ki |-> 1]
    ELSE after_auto(<<>>)

next_document(n) ==
    IF n < Len(documents) THEN [upc |-> "document", di |-> n + 1, ki |-> 0]
    ELSE [upc |-> after_documents.upc, di |-> n, ki |-> after_documents.ki]

(* cli, line 133-142: the query, --doc-folder, and the pick unless --all *)
cli_query ==
    /\ upc = "query"
    /\ \E found \in QueryResults :
       \E given \in {IF opts.doc_folder # None THEN <<The(opts.doc_folder)>>
                     ELSE found} :
       \E picked \in (IF opts.all THEN {None}
                      ELSE {None} \cup {Some(d) : d \in Range(given)}) :
          /\ documents' = (IF opts.all THEN given
                           ELSE IF picked = None THEN <<>> ELSE <<The(picked)>>)
          /\ events' = (IF found = <<>>
                        THEN Append(events, Ev("warning", 0, "no documents"))
                        ELSE events)
          /\ IF documents' = <<>>
             THEN /\ upc' = after_documents.upc /\ ki' = after_documents.ki
                  /\ di' = 0
             ELSE upc' = "document" /\ di' = 1 /\ ki' = 0
    /\ matching_importers' = <<>>
    /\ UNCHANGED <<opts, docs, folder, index, document, ctx, rvars>>

(* cli, line 145-157: the context seeded from the document, then --set *)
ctx_seed(doc, set) ==
    dict_update(dict_update(EmptyDict, doc),
                [key \in {set[n][1] : n \in 1..Len(set)} |->
                    LET last_n == CHOOSE n \in 1..Len(set) :
                                     /\ set[n][1] = key
                                     /\ \A j \in n + 1..Len(set) : set[j][1] # key
                    IN format_doc(set[last_n][2], doc)])

cli_document ==
    /\ upc = "document"
    /\ document' = Some(documents[di])
    /\ ctx' = Some([data |-> ctx_seed(docs[documents[di]], opts.set),
                    files |-> <<>>])
    /\ IF opts.delete # <<>>
       THEN upc' = "delete" /\ ki' = 1 /\ di' = di
       ELSE /\ upc' = next_document(di).upc /\ di' = next_document(di).di
            /\ ki' = next_document(di).ki
    /\ UNCHANGED <<opts, docs, folder, index, documents, matching_importers,
                   events, rvars>>

(* cli, line 161-171 *)
delete_key(interactive, confirmation, force) ==
    IF interactive /\ confirmation /\ ~force THEN TRUE
    ELSE IF ~confirmation THEN FALSE
    ELSE TRUE

(* cli, line 176-179: ValueError is logged, the store is updated otherwise *)
delete_absent_mut(st, d, doc, key, res) ==
    update_with_database(
        [st EXCEPT !.events = Append(@, Ev("error", d, key))], d, doc, res)
delete_absent(st, d, doc, key, res) ==
    [st EXCEPT !.events = Append(@, Ev("error", d, key))]

(* cli, line 160-179: one key of --delete *)
cli_delete ==
    /\ upc = "delete"
    /\ \E confirmation \in (IF opts.interactive THEN BOOLEAN ELSE {TRUE}) :
       \E d \in {The(document)} :
       \E key \in {opts.delete[ki]} :
       \E deleting \in {delete_key(opts.interactive, confirmation, opts.force)} :
       \E res \in (IF deleting THEN StoreOutcomes ELSE {"ok"}) :
       \E st0 \in {[Store EXCEPT !.events =
                       IF opts.interactive
                       THEN Append(@, Ev(IF confirmation THEN "prompt_yes"
                                         ELSE "prompt_no", d, key))
                       ELSE @]} :
       \E st \in {IF ~deleting THEN st0
                  ELSE IF doc_del_raises(docs[d], key)
                  THEN delete_absent(st0, d, docs[d], key, res)
                  ELSE update_with_database(st0, d, doc_del(docs[d], key), res)} :
          /\ docs' = (IF deleting /\ ~doc_del_raises(docs[d], key)
                      THEN [docs EXCEPT ![d] = doc_del(docs[d], key)]
                      ELSE docs)
          /\ folder' = st.folder /\ index' = st.index /\ events' = st.events
          /\ IF st.raised THEN upc' = "aborted" /\ di' = di /\ ki' = ki
             ELSE IF ki < Len(opts.delete) THEN upc' = "delete" /\ di' = di /\ ki' = ki + 1
             ELSE /\ upc' = next_document(di).upc /\ di' = next_document(di).di
                  /\ ki' = next_document(di).ki
    /\ UNCHANGED <<opts, documents, document, ctx, matching_importers, rvars>>

(* what an importer that raises does to the run, line 189-190 and 203-204:
   `except Exception` logs it and the loop goes on; an exception that is not
   a subclass of Exception (KeyboardInterrupt, SystemExit) leaves cli *)
on_importer_exception_mut(out) == "aborted"
on_importer_exception(out) == IF out = "Raise" THEN "continue" ELSE "aborted"

(* what is recorded of one importer: logger.exception for a caught
   exception, the exception that left cli, or the importer having run *)
importer_event(out, name) ==
    IF out = "Raise" THEN Ev("exception", 0, name)
    ELSE IF out = "Interrupt" THEN Ev("interrupt", 0, name)
    ELSE Ev("tried", 0, name)

(* cli, line 183-193: one registered importer under --auto *)
cli_auto ==
    /\ upc = "auto"
    /\ \E name \in {get_importers[ki]} :
       \E out \in (IF document = None THEN {"Raise"}
                   ELSE {"NotImplemented", "Raise", "Interrupt", "Empty",
                         "Data"}) :
       \E m \in {IF out \in {"Empty", "Data"} /\ ctx_bool(fetch(name, out).ctx)
                 THEN Append(matching_importers, fetch(name, out))
                 ELSE matching_importers} :
          /\ matching_importers' = m
          /\ events' = Append(events, importer_event(out, name))
          /\ IF out \in {"Raise", "Interrupt"}
                /\ on_importer_exception(out) = "aborted"
             THEN upc' = "aborted" /\ ki' = ki
             ELSE IF ki < Len(get_importers) THEN upc' = "auto" /\ ki' = ki + 1
             ELSE upc' = after_auto(m).upc /\ ki' = after_auto(m).ki
    /\ UNCHANGED <<opts, docs, folder, index, documents, di, document, ctx, rvars>>

(* cli, line 195-204: one --from directive *)
cli_from ==
    /\ upc = "from"
    /\ \E name \in {opts.from_importer[ki][1]} :
       \E out \in (IF document = None THEN {"Raise"}
                   ELSE {"Raise", "Interrupt", "Empty", "Data"}) :
       \E m \in {IF out \in {"Empty", "Data"} /\ ctx_bool(fetch(name, out).ctx)
                 THEN Append(matching_importers, fetch(name, out))
                 ELSE matching_importers} :
          /\ matching_importers' = m
          /\ events' = Append(events, importer_event(out, name))
          /\ IF out \in {"Raise", "Interrupt"}
                /\ on_importer_exception(out) = "aborted"
             THEN upc' = "aborted" /\ ki' = ki
             ELSE IF ki < Len(opts.from_importer) THEN upc' = "from" /\ ki' = ki + 1
             ELSE upc' = after_from(m).upc /\ ki' = after_from(m).ki
    /\ UNCHANGED <<opts, docs, folder, index, documents, di, document, ctx, rvars>>

(* papis.utils.update_doc_from_data_interactively: on the fields both sides
   have, the new value wins or the user keeps the old one *)
update_doc_from_data_interactively(data, new, choice) ==
    IF choice = "new" THEN dict_update(data, new) ELSE dict_update(new, data)

Subseq(q, keep) ==
    LET F[n \in 0..Len(q)] ==
            IF n = 0 THEN <<>>
            ELSE IF n \in keep THEN Append(F[n - 1], q[n]) ELSE F[n - 1]
    IN F[Len(q)]

(* cli, line 210-225: one matching importer merged into the context; the
   user keeps or replaces the fields in conflict, and is asked about each
   file of the importer *)
cli_merge ==
    /\ upc = "merge"
    /\ \E importer \in {matching_importers[ki]} :
       \E choice \in (IF DOMAIN importer.ctx.data # {} THEN {"new", "old"}
                      ELSE {"none"}) :
       \E use \in SUBSET (1..Len(importer.ctx.files)) :
          /\ ctx' = Some(
                [data |-> IF DOMAIN importer.ctx.data # {}
                          THEN update_doc_from_data_interactively(
                                   The(ctx).data, importer.ctx.data, choice)
                          ELSE The(ctx).data,
                 files |-> The(ctx).files \o Subseq(importer.ctx.files, use)])
          /\ events' = Append(events, Ev(IF choice = "new" THEN "merge_new"
                                         ELSE IF choice = "old" THEN "merge_old"
                                         ELSE "merge_none",
                                         The(document), importer.name))
                        \o [n \in 1..Len(importer.ctx.files) |->
                              Ev("prompt_file", The(document),
                                 importer.ctx.files[n])]
    /\ IF ki < Len(matching_importers) THEN upc' = "merge" /\ ki' = ki + 1
       ELSE upc' = "run" /\ ki' = 0
    /\ UNCHANGED <<opts, docs, folder, index, documents, di, document,
                   matching_importers, rvars>>

(* run, line 63: the reference of the document is put back into the data *)
run_data_mut(doc, data) == data
run_data(doc, data) == dict_update(data, ("ref" :> doc_get(doc, "ref")))

(* cli, line 227-230, and run, line 60-65 *)
cli_run ==
    /\ upc = "run"
    /\ IF document = None
       THEN /\ upc' = "aborted"
            /\ events' = Append(events, Ev("NameError", 0, "document"))
            /\ UNCHANGED <<docs, folder, index, ctx>>
       ELSE \E d \in {The(document)} :
            \E res \in StoreOutcomes :
            \E data \in {run_data(docs[d], The(ctx).data)} :
            \E st \in {update_with_database(Store, d, dict_update(docs[d], data), res)} :
               /\ ctx' = Some([The(ctx) EXCEPT !.data = data])
               /\ docs' = [docs EXCEPT ![d] = dict_update(docs[d], data)]
               /\ folder' = st.folder /\ index' = st.index /\ events' = st.events
               /\ upc' = IF st.raised THEN "aborted" ELSE "done"
    /\ UNCHANGED <<opts, documents, di, ki, document, matching_importers, rvars>>

RECURSIVE SeqsUpTo(_, _)
SeqsUpTo(S, n) ==
    IF n = 0 THEN {<<>>}
    ELSE LET shorter == SeqsUpTo(S, n - 1)
         IN shorter \cup {Append(s, x) : s \in shorter, x \in S}

InitRegistry ==
    /\ COMMANDS = None /\ ARGS = None
    /\ DEFAULT_PARSER = None /\ SUBPARSERS = None
    /\ held = None /\ calls = 0
    /\ parsers_made = 0 /\ subparsers_made = 0
    /\ init_count = [n \in InternalNames |-> 0]
    /\ ext_result = None
    /\ autocompleted = 0
    /\ last = [op |-> "none", built_before |-> FALSE, result |-> "none",
               value |-> <<0, 0>>, parsed |-> None]
    /\ invoked = None /\ dispatched = 0

InitCli ==
    /\ docs = Library /\ folder = Library /\ index = Library
    /\ documents = <<>> /\ di = 0 /\ ki = 0
    /\ document = None /\ ctx = None
    /\ matching_importers = <<>>
    /\ events = <<>>

NoUpdate ==
    /\ InitCli
    /\ upc = "off"
    /\ opts = [doc_folder |-> None, interactive |-> TRUE, force |-> FALSE,
               auto |-> FALSE, all |-> FALSE, from_importer |-> <<>>,
               set |-> <<>>, delete |-> <<>>]

(* the registry and dispatch layer, the scripts folder being the only
   directory scanned; no update is running *)
Init ==
    /\ InitRegistry
    /\ scripts_folder = 1 /\ PATH = <<>>
    /\ fs \in [Dirs -> Listings]
    /\ NoUpdate

Next ==
    \/ init
    \/ main
    \/ init_and_return_parser
    \/ call_set_commands
    \/ call_set_args
    \/ call_init_internal_commands
    \/ call_init_external_commands

vars == <<rvars, uvars>>

Spec == Init /\ [][Next]_vars

(* the discovery of the commands over every scripts folder listing, PATH and
   directory content: init() and direct calls of init_external_commands() *)
InitScan ==
    /\ InitRegistry
    /\ scripts_folder = 1
    /\ PATH \in SeqsUpTo(Dirs, MaxPathLen)
    /\ fs \in [Dirs -> Listings]
    /\ NoUpdate

NextScan ==
    \/ init
    \/ call_init_external_commands

SpecScan == InitScan /\ [][NextScan]_vars

(* the shared parser context: the entry points together with direct calls of
   get_default_parser() and get_subparsers() and Command constructions, the
   scripts folder being the only directory scanned *)
InitParser ==
    /\ InitRegistry
    /\ scripts_folder = 1 /\ PATH = <<>>
    /\ fs \in [Dirs -> Listings]
    /\ NoUpdate

NextParser ==
    \/ init
    \/ main
    \/ init_and_return_parser
    \/ call_get_default_parser
    \/ call_get_subparsers
    \/ construct_command
    \/ command_set_subparsers

SpecParser == InitParser /\ [][NextParser]_vars

(* one run of papis update, for every choice of its options *)
InitUpdate ==
    /\ InitRegistry
    /\ scripts_folder = 1 /\ PATH = <<>> /\ fs = [d \in Dirs |-> {}]
    /\ InitCli
    /\ upc = "query"
    /\ opts \in Options

NextUpdate ==
    \/ cli_query
    \/ cli_document
    \/ cli_delete
    \/ cli_auto
    \/ cli_from
    \/ cli_merge
    \/ cli_run

SpecUpdate == InitUpdate /\ [][NextUpdate]_vars

(***************************************************************************)
(* Properties of the registry and dispatch layer (checked under Spec, the  *)
(* discovery ones under SpecScan, the parser ones under SpecParser).       *)
(***************************************************************************)
C1_InitStep == calls' = calls + 1 /\ last'.op = "init"

(* C1: build() (init) succeeds exactly once in a process: the first build,
   when no command of the environment fails to load or initialise, succeeds
   and publishes the registry; no second build ever succeeds; and every
   init() called on a published registry raises RuntimeError and leaves the
   published name -> Command mapping unchanged. *)
C1_BuildOnce ==
    [][ /\ autocompleted' <= 1
        /\ C1_InitStep =>
              IF COMMANDS # None
              THEN last'.result = "RuntimeError" /\ COMMANDS' = COMMANDS
              ELSE last'.result \notin {"ImportError", "InitError"}
                      => last'.result = "ok" /\ COMMANDS' # None ]_vars

C2_Scanned(n) ==
    \E d \in {scripts_folder} \cup {PATH[i] : i \in 1..Len(PATH)} :
        <<"papis", n>> \in fs[d]

(* C2: after a build in which no command of the environment fails to load or
   initialise, every name that is both an internal command name and the name
   of a script found by the external scan is published, and published as the
   internal Command. *)
C2_InternalPrecedence ==
    (/\ last.op = "init" /\ ~last.built_before
     /\ last.result \notin {"ImportError", "InitError"})
    => \A n \in InternalNames :
          C2_Scanned(n) =>
             /\ COMMANDS # None
             /\ n \in DOMAIN The(COMMANDS)
             /\ The(COMMANDS)[n].kind = "internal"

(* C8: the mapping returned by init_external_commands has exactly the command
   names of the matching files of the scanned directories (scripts folder
   first, then PATH in order), and each name's entry is the file of the last
   scanned directory that has a file of that name. *)
C8_ScanOrder == <<scripts_folder>> \o PATH
C8_Positions(n) ==
    {i \in 1..Len(C8_ScanOrder) :
        \E f \in fs[C8_ScanOrder[i]] : f[1] = "papis" /\ f[2] = n}
C8_Last(n) == CHOOSE i \in C8_Positions(n) : \A j \in C8_Positions(n) : j <= i

C8_LastScannedWins ==
    ext_result # None =>
        LET r == The(ext_result) IN
        /\ DOMAIN r = {n \in {f[2] : f \in FileNames} : C8_Positions(n) # {}}
        /\ \A n \in DOMAIN r :
             /\ r[n].kind = "external"
             /\ r[n].name = n
             /\ The(r[n].script)[1] = C8_ScanOrder[C8_Last(n)]
             /\ The(r[n].script)[2] = <<"papis", n>>

C8_Witness ==
    /\ ext_result # None
    /\ \E n \in DOMAIN The(ext_result) :
         \E i \in C8_Positions(n) :
            /\ i < C8_Last(n)
            /\ C8_ScanOrder[i] # C8_ScanOrder[C8_Last(n)]
    /\ \E f \in fs[scripts_folder] : f[1] # "papis"

(* C9 as stated: main() called when the registry is already built does not
   fail. *)
C9_RunToleratesBuiltRegistry ==
    (last.op = "main" /\ last.built_before) => last.result # "RuntimeError"

(* C9 as amended: main() always calls init(); on a published registry it
   fails with RuntimeError before parsing or dispatching, on an unbuilt
   registry it either fails in discovery, leaving the registry unbuilt, or
   builds it and goes on to parse. *)
C9_RunAlwaysBuilds ==
    last.op = "main" =>
        IF last.built_before
        THEN last.result = "RuntimeError" /\ last.parsed = None /\ COMMANDS # None
        ELSE \/ /\ last.result \in {"ImportError", "InitError", "AttributeError"}
                /\ last.parsed = None /\ COMMANDS = None
             \/ /\ last.result \in {"SystemExit", "ok"}
                /\ COMMANDS # None /\ autocompleted >= 1
                /\ DOMAIN The(COMMANDS) = InternalNames \cup DOMAIN The(ext_result)

C9_Witness ==
    /\ last.op = "main" /\ last.built_before /\ last.result = "RuntimeError"
    /\ calls = 2 /\ dispatched = 0 /\ COMMANDS = Some(EmptyDict)

(* C10: a main() called on an unbuilt registry, when no command of the
   environment fails to load or initialise and argparse accepts the
   arguments, ends with the registry built, the arguments stored and the
   dispatch done, having invoked the Command named by the subcommand the
   arguments select, the default command when they select none. *)
C10_DispatchSelected ==
    (/\ last.op = "main" /\ ~last.built_before
     /\ last.result \notin {"ImportError", "InitError", "SystemExit"})
    => /\ last.result = "ok"
       /\ COMMANDS # None /\ ARGS # None /\ dispatched > 0
       /\ The(invoked).name =
            (IF The(last.parsed).command = None THEN "default"
             ELSE The(The(last.parsed).command))

(***************************************************************************)
(* Properties of papis update (checked under SpecUpdate).                  *)
(***************************************************************************)
Happened(kinds) == \E n \in 1..Len(events) : events[n].ev \in kinds
StoreCalls == {"save", "update", "save_raises", "update_raises"}

(* C3: after an update with --set directives and no --auto, no --from (and no
   --delete), every processed document has each set field at its formatted
   value, was saved and sent to the store, and keeps its reference. *)
C3_SetApplied ==
    (/\ upc = "done" /\ opts.set # <<>> /\ ~opts.auto
     /\ opts.from_importer = <<>> /\ opts.delete = <<>>)
    => \A d \in Range(documents) :
          /\ \A n \in 1..Len(opts.set) :
                opts.set[n][1] # "ref" =>
                    /\ doc_get(docs[d], opts.set[n][1])
                          = format_doc(opts.set[n][2], Library[d])
                    /\ doc_get(index[d], opts.set[n][1])
                          = format_doc(opts.set[n][2], Library[d])
          /\ \E n \in 1..Len(events) : events[n] = Ev("update", d, "")
          /\ doc_get(docs[d], "ref") = Library[d]["ref"]

(* C4: the step that merges and commits (run) leaves the reference of every
   document as it was, in the document, in its folder and in what the store
   receives; and over a whole update that has no --delete ref the reference
   stays the library's, whatever --set and the importers supply. *)
C4_RefPreserved ==
    [][ /\ upc = "run" =>
            \A d \in DocIds :
                /\ doc_get(docs'[d], "ref") = doc_get(docs[d], "ref")
                /\ doc_get(folder'[d], "ref") = doc_get(docs[d], "ref")
                /\ doc_get(index'[d], "ref") = doc_get(docs[d], "ref")
        /\ "ref" \notin Range(opts.delete) =>
            \A d \in DocIds :
                /\ doc_get(docs'[d], "ref") = Library[d]["ref"]
                /\ doc_get(folder'[d], "ref") = Library[d]["ref"]
                /\ doc_get(index'[d], "ref") = Library[d]["ref"] ]_vars

C4_Witness ==
    /\ upc = "done" /\ document # None /\ events # <<>>
    /\ \E n \in 1..Len(events) : events[n] = Ev("merge_new", The(document), "A")
    /\ events[Len(events)] = Ev("update", The(document), "")
    /\ docs[The(document)]["tags"] = "newA"
    /\ docs[The(document)]["ref"] = Library[The(document)]["ref"]

C5_IsMerge(e) == e.ev \in {"merge_new", "merge_old", "merge_none"}
C5_Attempts ==
    Cardinality({n \in 1..Len(events) : events[n].ev \in {"tried", "exception"}})
C5_Expected ==
    (IF opts.from_importer = <<>> /\ opts.auto THEN Len(get_importers) ELSE 0)
    + Len(opts.from_importer)

C5_Committed ==
    /\ upc \in {"merge", "run", "done"} => C5_Attempts = C5_Expected
    /\ (upc = "done" /\ matching_importers # <<>>) =>
          LET d == The(document)
              merges == SelectSeq(events, C5_IsMerge)
          IN /\ Len(merges) = Len(matching_importers)
             /\ events[Len(events)] = Ev("update", d, "")
             /\ index[d] = docs[d] /\ folder[d] = docs[d]
             /\ \A n \in 1..Len(matching_importers) :
                  /\ merges[n].what = matching_importers[n].name
                  /\ \A key \in (DOMAIN matching_importers[n].ctx.data) \ {"ref"} :
                       /\ key \in DOMAIN docs[d]
                       /\ (/\ merges[n].ev = "merge_new"
                           /\ \A j \in n + 1..Len(matching_importers) :
                                 key \notin DOMAIN matching_importers[j].ctx.data)
                          => docs[d][key] = matching_importers[n].ctx.data[key]

(* C5 as stated: an importer that raises, whatever it raises, never aborts
   the update: the run stops early only on a save or store failure, every
   importer of the loop is still tried, and when the update completes the
   document and the store hold the merged fields of the importers that
   reported data. *)
C5_ImporterFailureIsolated ==
    /\ upc = "aborted" =>
          events[Len(events)].ev \in {"save_raises", "update_raises"}
    /\ C5_Committed

(* C5 as amended: an importer that raises an exception deriving from
   Exception never aborts the update (it is logged, every other importer is
   still tried and the data of those that reported some is merged and
   committed); an exception that does not derive from Exception
   (KeyboardInterrupt, SystemExit) ends the update at once, with nothing
   merged or committed after it. *)
C5_ExceptionIsolated ==
    /\ upc = "aborted" =>
          events[Len(events)].ev \in {"save_raises", "update_raises", "interrupt"}
    /\ Happened({"interrupt"}) =>
          /\ upc = "aborted" /\ events[Len(events)].ev = "interrupt"
          /\ ~\E n \in 1..Len(events) : C5_IsMerge(events[n])
    /\ C5_Committed

C5_Witness ==
    /\ upc = "done"
    /\ Happened({"exception"})
    /\ \E n \in 1..Len(events) : events[n].ev = "merge_new"
    /\ \E n \in 1..Len(events), j \in 1..Len(events) :
          n < j /\ events[n].ev = "exception" /\ events[j].ev = "tried"

(* C6: with --no-interactive, a --delete of a field the document does not
   have logs an error, does not abort the run, and changes neither the
   document nor its folder nor the store. *)
C6_DeleteAbsent ==
    [][ (/\ upc = "delete" /\ ~opts.interactive
         /\ opts.delete[ki] \notin DOMAIN docs[The(document)])
        => /\ docs' = docs /\ folder' = folder /\ index' = index
           /\ upc' # "aborted"
           /\ events' = Append(events,
                               Ev("error", The(document), opts.delete[ki])) ]_vars

C6_Witness ==
    /\ upc = "done" /\ ~opts.interactive
    /\ opts.delete = <<"tags">>
    /\ document # None /\ Len(events) = 1
    /\ events[1] = Ev("error", The(document), "tags")
    /\ docs = Library /\ index = Library

(* C7: an update with no --set, --delete, --auto or --from changes no field of
   any document, saves nothing and sends nothing to the store. *)
C7_NoDirectivesNoChange ==
    (/\ opts.set = <<>> /\ opts.delete = <<>>
     /\ ~opts.auto /\ opts.from_importer = <<>>)
    => /\ docs = Library /\ folder = Library /\ index = Library
       /\ upc # "aborted"
       /\ ~Happened(StoreCalls)

C7_Witness ==
    /\ opts.set = <<>> /\ opts.delete = <<>>
    /\ ~opts.auto /\ opts.from_importer = <<>>
    /\ upc = "done" /\ document # None
    /\ docs = Library

(* C11 as stated: every entry point that triggers a build reports a second
   build to its caller as the lifecycle error. *)
C11_DoubleBuildSurfaced ==
    (/\ last.op \in {"init", "main", "init_and_return_parser"}
     /\ last.built_before)
    => last.result = "RuntimeError"

(* C11 as amended: init() and main() report a build on a published registry
   to their caller as RuntimeError; init_and_return_parser passes over every
   exception of init(), the double-initialisation error included, and
   returns the parser with the registry left published. *)
C11_SurfacedExceptByParserCall ==
    /\ (last.op \in {"init", "main"} /\ last.built_before)
          => last.result = "RuntimeError"
    /\ last.op = "init_and_return_parser"
          => /\ last.result = "ok"
             /\ DEFAULT_PARSER # None
             /\ last.value[1] = The(DEFAULT_PARSER)
             /\ (last.built_before => COMMANDS # None)

C11_Witness ==
    /\ last.op = "init_and_return_parser" /\ last.built_before
    /\ last.result = "ok" /\ calls = 2

(* C12: over any sequence of build attempts, the initialize of the Command of
   each name runs at most once in the process. *)
C12_InitializeOnce ==
    \A n \in InternalNames : init_count[n] <= 1

C13_Rebound ==
    \/ calls' = calls + 1 /\ last'.op = "set_subparsers"
    \/ held' = held

(* C13: at most one top-level parser and one subcommand namespace are ever
   created; once created the globals never change; every call of
   get_default_parser, get_subparsers and init_and_return_parser returns the
   one instance, and every Command, published or constructed, holds it (the
   namespace attribute of a constructed Command differs only after an
   explicit set_subparsers). *)
C13_SingleParserContext ==
    [][ /\ parsers_made' <= 1 /\ subparsers_made' <= 1
        /\ (DEFAULT_PARSER # None => DEFAULT_PARSER' = DEFAULT_PARSER)
        /\ (SUBPARSERS # None => SUBPARSERS' = SUBPARSERS)
        /\ (SUBPARSERS' # None => DEFAULT_PARSER' # None)
        /\ (last'.value[1] # 0 => last'.value[1] = The(DEFAULT_PARSER'))
        /\ (last'.value[2] # 0 => last'.value[2] = The(SUBPARSERS'))
        /\ (COMMANDS' # None =>
              \A n \in DOMAIN The(COMMANDS') :
                 /\ The(COMMANDS')[n].default_parser = The(DEFAULT_PARSER')
                 /\ The(COMMANDS')[n].subparsers = The(SUBPARSERS'))
        /\ (held' # None =>
              /\ The(held').default_parser = The(DEFAULT_PARSER')
              /\ \/ The(held').subparsers = The(SUBPARSERS')
                 \/ The(held').subparsers = 0 /\ C13_Rebound) ]_vars

C13_Witness ==
    /\ calls = 2 /\ held # None
    /\ last.op \in {"get_default_parser", "get_subparsers", "Command"}
    /\ last.value # <<0, 0>>
    /\ parsers_made = 1 /\ subparsers_made = 1

(***************************************************************************)
(* Properties of the delete directives and of the batch (SpecUpdate).      *)
(***************************************************************************)
C14_Removed(key) ==
    /\ key \in DOMAIN docs[The(document)]
    /\ key \notin DOMAIN docs'[The(document)]

C14_Answered(kind) ==
    \E n \in Len(events) + 1..Len(events') : events'[n].ev = kind

(* C14: a --delete key is conditional on the confirmation unless --force is
   set: with --force a key the document has is deleted whatever the answer,
   a declined prompt included; without --force in interactive mode the key
   is deleted only when the user confirmed. *)
C14_ForceOverridesConfirmation ==
    [][ upc = "delete" =>
          LET key == opts.delete[ki] IN
          /\ (opts.force /\ key \in DOMAIN docs[The(document)]
                 => C14_Removed(key))
          /\ (~opts.force /\ opts.interactive /\ C14_Removed(key)
                 => C14_Answered("prompt_yes")) ]_vars

C15_MergedAndCommitted(d) ==
    \E n \in 1..Len(events) :
        /\ C5_IsMerge(events[n]) /\ events[n].doc = d
        /\ \E j \in n + 1..Len(events) : events[j] = Ev("update", d, "")

(* C15: in --all mode every document the query selected goes through the
   whole workflow: once the run is over with importers matched, each selected
   document had the importer results merged for it and was committed (saved
   and updated in the store), not only the last one. *)
C15_AllDocumentsProcessed ==
    upc = "done" /\ opts.all /\ matching_importers # <<>>
        => \A d \in Range(documents) : C15_MergedAndCommitted(d)

(* C16: in --all mode a commit failure (document.save() or the store update
   raising) for one document does not abort the batch: the run never stops
   on such a failure while selected documents remain to be processed. *)
C16_CommitFailureDoesNotAbortBatch ==
    opts.all /\ Happened({"save_raises", "update_raises"}) /\ upc = "aborted"
        => di = Len(documents)

(***************************************************************************)
(* Properties of the importer matching and of the merge (SpecUpdate).      *)
(***************************************************************************)
C17_IsAttempt(e) == e.ev \in {"tried", "exception"}
C17_Run == [n \in 1..Len(SelectSeq(events, C17_IsAttempt)) |->
               SelectSeq(events, C17_IsAttempt)[n].what]
C17_Named == [n \in 1..Len(opts.from_importer) |-> opts.from_importer[n][1]]

(* C17: with --auto every registered importer is run against the document,
   whether or not --from directives are given as well: once the matching is
   over, the importers run are the registered ones followed by the named
   ones. *)
C17_AutoRunsEveryImporter ==
    upc \in {"merge", "run", "done"} /\ opts.auto /\ document # None
        => C17_Run = get_importers \o C17_Named

(* C17, amended: with --auto and no --from, every registered importer is run
   against the document, in registration order; when --from directives are
   given, --auto is ignored and exactly the named importers are run, in the
   order given. *)
C17_AutoOnlyWithoutFrom ==
    upc \in {"merge", "run", "done"} /\ opts.auto /\ document # None
        => C17_Run = (IF opts.from_importer = <<>> THEN get_importers
                      ELSE C17_Named)

C17_Witness ==
    /\ upc = "done" /\ opts.auto /\ document # None
    /\ opts.from_importer = << <<"A", "uri">> >>
    /\ C17_Run = <<"A">>
    /\ Happened({"update"})

(* C18: with --no-interactive the merge of importer data asks the user
   nothing: the importer's value wins on every field in conflict and no
   prompt is issued; prompts belong to interactive mode only. *)
C18_BatchMergeNeverPrompts ==
    ~opts.interactive => ~Happened({"prompt_file", "merge_old"})

C19_Updates(d) ==
    Cardinality({n \in 1..Len(events') : events'[n] = Ev("update", d, "")})

(* C19: one update operation applies its changes atomically: the document
   folder and the store index are written only by the commit that ends the
   work on a document, carrying all its set, delete and merge results; no
   earlier step persists a partial change, and the store is updated at most
   once per document. *)
C19_AtomicCommit ==
    [][ /\ (folder' # folder \/ index' # index)
              => upc' \in {"document", "done", "aborted"}
        /\ \A d \in DocIds : C19_Updates(d) <= 1 ]_vars

C20_Deleted(d, key) ==
    /\ key \in {opts.delete[n] : n \in 1..Len(opts.delete)}
    /\ key \in DOMAIN Library[d]
    /\ opts.interactive =>
          \E n \in 1..Len(events) : events[n] = Ev("prompt_yes", d, key)

C20_Supplied(key) ==
    \/ \E n \in 1..Len(opts.set) : opts.set[n][1] = key
    \/ \E n \in 1..Len(matching_importers) :
          key \in DOMAIN matching_importers[n].ctx.data

(* C20: a field actually removed by --delete stays removed: when the update
   is complete, importers matched and merged or not, the key is absent from
   the document and from what the store received, unless a --set directive
   or an importer supplied a value for it. *)
C20_DeletedStaysDeleted ==
    upc = "done" /\ document # None
        => \A key \in {"ref", "tags", "title"} :
              C20_Deleted(The(document), key) /\ ~C20_Supplied(key)
                 => /\ key \notin DOMAIN docs[The(document)]
                    /\ key \notin DOMAIN index[The(document)]

====
